---- MODULE Spec2Model ----
(***************************************************************************)
(* Point-cloud compute/render pipeline of wgpu-ts-renderer.                *)
(*                                                                         *)
(* The repository holds several builds of the same classes.  The model     *)
(* carries the build as the state variable `variant`:                      *)
(*   "grid64"  src/src/pointclouds/pointcloud.ts + src/unnamed/part_016    *)
(*             (every kernel and compute() use a workgroup size of 64)     *)
(*   "fib"     src/dist/pointclouds/fibonacci.js (PointCloud with 256,     *)
(*             FibonacciLattice kernel with 64)                            *)
(*   "rgb"     src/unnamed/part_004 PointCloud + linearrgbcube.ts          *)
(*   "luv"     src/unnamed/part_004 PointCloud + src/dist/.../cieluv.js    *)
(*                                                                         *)
(* Buffer cells hold integers: positions and colours are fixed-point       *)
(* numbers in units of 1/Unit.  Rotation angles are whole quarter turns    *)
(* (k stands for k*pi/2), for which cos and sin are exactly -1, 0 or 1.    *)
(***************************************************************************)
EXTENDS Integers, Sequences, FiniteSets, TLC

VARIABLES
    variant,          \* build of the program that is running
    numPoints,        \* PointCloud.numPoints
    image,            \* the renderer's attached PPM image (NoImage when none)
    vertices,         \* PointCloud.vertexBuffer: one 6-float record [x,y,z,r,g,b] per point
    transformUniform, \* PointCloud.transformUniformBuffer: translation, rotation, scale
    computeBindGroup, \* PointCloud.computeBindGroup: which bind group the field holds
    renderBindGroup,  \* PointCloud.renderBindGroup: 0 is null, else the id of the group
    bindGroupsCreated,\* number of render bind groups created so far
    renders,          \* number of render() calls so far
    drawLog,          \* vertex count of every draw call issued, in order
    generated,        \* generateCloud has run
    generation,       \* the generator's dispatch, what it touched, the colours it wrote
    queue,            \* the compute dispatches submitted to the device queue, in order
    dispatch,         \* the dispatch planned by the last compute() call
    access,           \* what the invocations of the last dispatch touched
    history,          \* the last two transform calls and the buffer before each
    calls,            \* number of public calls made so far
    probe,            \* PlanSpec: an index and the invocations that recover it
    buffers,          \* the GPU buffers the cloud created that are not destroyed
    destroyed,        \* destroy() has been called on the cloud
    widePlan,         \* PlanSpec: the last compute() plan for a count beyond 32 bits
    argument,         \* what the cloud's constructor was given: gridSize, bitDepth or count
    sample,           \* KernelSpec: one invocation of the generator kernel, evaluated
    renderer,         \* Renderer: ppmBuffer, the current cloud object, the last upload
    created,          \* the last createGPUBuffer call: its arguments and its result
    transform,        \* PointCloud.transform: position, rotation (a quaternion), scale
    modelMatrixBuffer,\* contents of PointCloud.modelMatrixBuffer: a 4x4 matrix, column-major
    loop              \* the frame loop: position of generateCloud, frames, submissions

vars == << variant, numPoints, image, vertices, transformUniform, computeBindGroup,
           renderBindGroup, bindGroupsCreated, renders, drawLog, generated, generation,
           queue, dispatch, access, history, calls, probe, buffers, destroyed,
           widePlan, argument, sample, renderer, created, transform,
           modelMatrixBuffer, loop >>

\* ---------------------------------------------------------------- bounds
\* how far around each dispatch boundary the planner inputs are sampled
PlanSlack == 2

\* number of public calls (generateCloud, translate, rotate, scale, render) explored
MaxCalls == 3

\* largest grid size of a CIELUV cloud (the smallest is 2)
MaxGridSize == 2

\* largest bit depth of an RGB cube
MaxBitDepth == 1

\* ------------------------------------------------------- program constants
DispatchLimit == 65535

\* Math.ceil(a / b) for positive integers
CeilDiv(a, b) == (a + b - 1) \div b

Min(a, b) == IF a < b THEN a ELSE b

\* WORKGROUP_SIZE of PointCloud.compute in each build
HostWorkgroupSize(v) == IF v = "grid64" THEN 64 ELSE 256

\* @workgroup_size and flat-index stride factor of each kernel in each build
KernelWorkgroupSize(v, kernel) ==
    CASE v = "grid64" -> 64
      [] v = "fib" /\ kernel = "generate" -> 64
      [] OTHER -> 256

Variants == {"grid64", "fib", "rgb", "luv"}

\* PointCloud.compute: the workgroup counts handed to dispatchWorkgroups
\* mutant: the workgroup count is not clamped to the per-dimension limit
xGroupsUnclamped(totalWorkgroups) == totalWorkgroups

xGroupsOf(totalWorkgroups) == Min(totalWorkgroups, DispatchLimit)

\* mutant: Math.floor in place of Math.ceil
yGroupsFloor(totalWorkgroups) == totalWorkgroups \div DispatchLimit

yGroupsOf(totalWorkgroups) == CeilDiv(totalWorkgroups, DispatchLimit)

compute(v, kernel, bindGroup, workItems) ==
    LET WORKGROUP_SIZE == HostWorkgroupSize(v)
        totalWorkgroups == CeilDiv(workItems, WORKGROUP_SIZE)
    IN  [ kernel     |-> kernel,
          bindGroup  |-> bindGroup,
          workItems  |-> workItems,
          hostWG     |-> WORKGROUP_SIZE,
          kernelWG   |-> KernelWorkgroupSize(v, kernel),
          total      |-> totalWorkgroups,
          xGroups    |-> xGroupsOf(totalWorkgroups),
          yGroups    |-> yGroupsOf(totalWorkgroups) ]

NoDispatch == [ kernel |-> "none", bindGroup |-> "none", workItems |-> 0, hostWG |-> 0, kernelWG |-> 0,
                total |-> 0, xGroups |-> 0, yGroups |-> 0 ]

\* the kernels' flat index: global_id.x + global_id.y * 65535u * <size>u
FlatIndex(x, y, kernelWG) == x + (y * DispatchLimit * kernelWG)

\* invocations <<global_id.x, global_id.y>> of dispatch d whose flat index is i
Invokers(d, i) ==
    { xy \in { << i - (y * DispatchLimit * d.kernelWG), y >> : y \in 0..(d.yGroups - 1) } :
        /\ xy[1] >= 0
        /\ xy[1] < d.xGroups * d.kernelWG
        /\ FlatIndex(xy[1], xy[2], d.kernelWG) = i }

NoProbe == [ index |-> -1, invokers |-> {} ]

\* ----------------------------------------------------------- buffer access
\* arrayLength(&vertices): the number of f32 in the bound buffer
arrayLength(buf) == 6 * Len(buf)

\* vertices[o] for a 0-based float offset o; an out-of-bounds read yields 0
Load(buf, o) == IF o >= 0 /\ o < arrayLength(buf) THEN buf[(o \div 6) + 1][(o % 6) + 1] ELSE 0

\* the flat indices of all invocations of dispatch d
InvocationIndices(d) ==
    { FlatIndex(x, y, d.kernelWG) :
        x \in 0..((d.xGroups * d.kernelWG) - 1), y \in 0..(d.yGroups - 1) }

\* some invocation of dispatch d has flat index i
Invoked(d, i) == Invokers(d, i) # {}

NoAccess == [ kernel |-> "none", passed |-> {}, oobWrites |-> {}, oobReads |-> {} ]

\* ------------------------------------------------------------- init kernel
\* initKernel main: `if (index >= arrayLength(&vertices)) { return; }`
initGuard(buf, index) == ~(index >= arrayLength(buf))

initKernel(buf, d) ==
    LET passed == { i \in InvocationIndices(d) : initGuard(buf, i) }
        zeroed(p, s) == LET index == ((p - 1) * 6) + (s - 1)
                        IN  Invoked(d, index) /\ initGuard(buf, index)
    IN  [ buffer |-> [ p \in 1..Len(buf) |->
                         [ s \in 1..6 |-> IF zeroed(p, s) THEN 0 ELSE buf[p][s] ] ],
          access |-> [ kernel    |-> "init",
                       passed    |-> passed,
                       oobWrites |-> { i \in passed : i >= arrayLength(buf) },
                       oobReads  |-> {} ] ]

\* -------------------------------------------------------- transform kernel
\* cos and sin of k quarter turns
Cos(k) == CASE k % 4 = 0 -> 1 [] k % 4 = 1 -> 0 [] k % 4 = 2 -> -1 [] OTHER -> 0

Sin(k) == CASE k % 4 = 0 -> 0 [] k % 4 = 1 -> 1 [] k % 4 = 2 -> 0 [] OTHER -> -1

\* builds whose rotatePoint skips an axis whose angle is exactly zero
SkipsZeroAngle(v) == v # "grid64"

rotateX(p, a) == << p[1], (p[2] * Cos(a)) - (p[3] * Sin(a)), (p[2] * Sin(a)) + (p[3] * Cos(a)) >>

\* mutant: cos and sin exchanged
rotateYSwapped(p, a) == << (p[1] * Sin(a)) + (p[3] * Cos(a)), p[2], ((-p[1]) * Cos(a)) + (p[3] * Sin(a)) >>

\* mutant: the sign of the sine term of the new z is lost
rotateYSign(p, a) == << (p[1] * Cos(a)) + (p[3] * Sin(a)), p[2], (p[1] * Sin(a)) + (p[3] * Cos(a)) >>

rotateY(p, a) == << (p[1] * Cos(a)) + (p[3] * Sin(a)), p[2], ((-p[1]) * Sin(a)) + (p[3] * Cos(a)) >>

rotateZ(p, a) == << (p[1] * Cos(a)) - (p[2] * Sin(a)), (p[1] * Sin(a)) + (p[2] * Cos(a)), p[3] >>

\* mutant: the axes are applied in the order Z, Y, X
rotatePointZYX(v, p, r) ==
    LET afterZ == IF SkipsZeroAngle(v) /\ r[3] = 0 THEN p ELSE rotateZ(p, r[3])
        afterY == IF SkipsZeroAngle(v) /\ r[2] = 0 THEN afterZ ELSE rotateY(afterZ, r[2])
        afterX == IF SkipsZeroAngle(v) /\ r[1] = 0 THEN afterY ELSE rotateX(afterY, r[1])
    IN  afterX

\* rotatePoint: X, then Y, then Z, each applied to the result of the previous
rotatePoint(v, p, r) ==
    LET afterX == IF SkipsZeroAngle(v) /\ r[1] = 0 THEN p ELSE rotateX(p, r[1])
        afterY == IF SkipsZeroAngle(v) /\ r[2] = 0 THEN afterX ELSE rotateY(afterX, r[2])
        afterZ == IF SkipsZeroAngle(v) /\ r[3] = 0 THEN afterY ELSE rotateZ(afterY, r[3])
    IN  afterZ

\* transformKernel main, lines "Apply transformations"
transformPoint(v, position, u) ==
    LET rotated    == rotatePoint(v, position, u.rotation)
        scaled     == << rotated[1] * u.scale[1], rotated[2] * u.scale[2], rotated[3] * u.scale[3] >>
        translated == << scaled[1] + u.translation[1], scaled[2] + u.translation[2],
                         scaled[3] + u.translation[3] >>
    IN  translated

\* mutant: the index is compared with the number of floats, not of points
transformGuardFloats(buf, index) == ~(index >= arrayLength(buf))

\* transformKernel main: `if (index >= arrayLength(&vertices) / 6) { return; }`
transformGuard(buf, index) == ~(index >= arrayLength(buf) \div 6)

\* mutant: a fourth float is written back
transformSlotsFour == {0, 1, 2, 3}

\* the record slots transformKernel main writes back
transformSlots == {0, 1, 2}

\* transformKernel main, lines "Write back transformed position", on one record
transformStore(record, transformed) ==
    [ s \in 1..6 |-> IF (s - 1) \in transformSlots THEN transformed[((s - 1) % 3) + 1]
                     ELSE record[s] ]

transformKernel(v, buf, d, u) ==
    LET passed  == { i \in InvocationIndices(d) : transformGuard(buf, i) }
        touched == { (i * 6) + s : i \in passed, s \in {0, 1, 2} \cup transformSlots }
        position(index) == << Load(buf, index * 6), Load(buf, (index * 6) + 1),
                              Load(buf, (index * 6) + 2) >>
    IN  [ buffer |-> [ p \in 1..Len(buf) |->
                         IF Invoked(d, p - 1) /\ transformGuard(buf, p - 1)
                         THEN transformStore(buf[p], transformPoint(v, position(p - 1), u))
                         ELSE buf[p] ],
          access |-> [ kernel    |-> "transform",
                       passed    |-> passed,
                       oobWrites |-> { o \in touched : o >= arrayLength(buf) },
                       oobReads  |-> { o \in touched : o >= arrayLength(buf) } ] ]

\* ------------------------------------------------------ fixed-point numbers
\* the number n/d in buffer units (thousandths, rounded down)
Fixed(n, d) == (n * 1000) \div d

\* product of two fixed-point numbers
MulM(a, b) == (a * b) \div 1000

Abs(a) == IF a < 0 THEN -a ELSE a

\* largest r in 0..1000 with r*r <= n: 1000*sqrt(n/1000000)
ISqrt(n) == CHOOSE r \in 0..1000 : r * r <= n /\ (r + 1) * (r + 1) > n

\* largest r in 0..1000 with r^3 <= n: 1000*cbrt(n/1000000000)
ICbrt(n) == CHOOSE r \in 0..1000 : r * r * r <= n /\ (r + 1) * (r + 1) * (r + 1) > n

Pow5M(r) == MulM(MulM(MulM(MulM(r, r), r), r), r)

\* pow(b, 2.4) = b^2 * (b^2)^(1/5) for a fixed-point b in [0,1]
Pow24(b) ==
    LET b2 == MulM(b, b)
        root == CHOOSE r \in 0..1000 : Pow5M(r) <= b2 /\ (r = 1000 \/ Pow5M(r + 1) > b2)
    IN  MulM(b2, root)

\* sin of x degrees, 0 <= x < 360, by Bhaskara's rational approximation
SinDeg(x) ==
    LET half(a) == (4000 * a * (180 - a)) \div (40500 - (a * (180 - a)))
    IN  IF x <= 180 THEN half(x) ELSE -half(x - 180)

CosDeg(x) == SinDeg((x + 90) % 360)

\* --------------------------------------------------- colour science kernels
\* sRGB gamma correction of one channel (rgb_to_xyz, first half)
srgb_to_linear(c) ==
    IF c * 100 <= 4045 THEN (c * 100) \div 1292 ELSE Pow24(((c + 55) * 1000) \div 1055)

\* rgb_to_xyz: gamma correction, then the RGB to XYZ matrix (coefficients to 1e-5)
rgb_to_xyz(rgb) ==
    LET r == srgb_to_linear(rgb[1])
        g == srgb_to_linear(rgb[2])
        b == srgb_to_linear(rgb[3])
    IN  << ((41246 * r) + (35758 * g) + (18044 * b)) \div 100000,
           ((21267 * r) + (71515 * g) + (7218 * b)) \div 100000,
           ((1933 * r) + (11919 * g) + (95030 * b)) \div 100000 >>

\* u' and v' of the D65 reference white, in 1e-4 units (Xn, Yn, Zn in 1e-4 units)
u_prime_ref_white == (4 * 9505 * 10000) \div (9505 + (15 * 10000) + (3 * 10888))

v_prime_ref_white == (9 * 10000 * 10000) \div (9505 + (15 * 10000) + (3 * 10888))

\* the float that is not a number: a value no computation of the model yields
NaN == -1000000

\* mutant: no reference-white branch; the quotients by a zero denominator are not numbers
xyz_to_luvNoFallback(xyz) ==
    LET denominator == xyz[1] + (15 * xyz[2]) + (3 * xyz[3])
        y_normalized == xyz[2]
        L_star == IF y_normalized * 1000 > 8856
                  THEN ((116 * ICbrt(y_normalized * 1000000)) \div 100) - 160
                  ELSE (9033 * y_normalized) \div 1000
    IN  IF denominator = 0 THEN << L_star, NaN, NaN >>
        ELSE << L_star,
                (13 * L_star * (((4 * xyz[1] * 10000) \div denominator)
                                  - u_prime_ref_white)) \div 10000,
                (13 * L_star * (((9 * xyz[2] * 10000) \div denominator)
                                  - v_prime_ref_white)) \div 10000 >>

\* xyz_to_luv: <<L*, u*, v*>> in tenths, from xyz in thousandths
xyz_to_luv(xyz) ==
    LET denominator == xyz[1] + (15 * xyz[2]) + (3 * xyz[3])
        u_prime == IF denominator > 0 THEN (4 * xyz[1] * 10000) \div denominator
                   ELSE u_prime_ref_white
        v_prime == IF denominator > 0 THEN (9 * xyz[2] * 10000) \div denominator
                   ELSE v_prime_ref_white
        y_normalized == xyz[2]
        L_star == IF y_normalized * 1000 > 8856
                  THEN ((116 * ICbrt(y_normalized * 1000000)) \div 100) - 160
                  ELSE (9033 * y_normalized) \div 1000
    IN  << L_star,
           (13 * L_star * (u_prime - u_prime_ref_white)) \div 10000,
           (13 * L_star * (v_prime - v_prime_ref_white)) \div 10000 >>

\* luv_to_xyz of cieluv.js, with its constants u_n = 0.1978 and v_n = 0.4683
luv_to_xyz(luv) ==
    LET l == luv[1]
        t == ((l + 160) * 1000) \div 1160
        Y == IF l > 80 THEN MulM(MulM(t, t), t) ELSE (l * 1000) \div 9033
        u_prime == IF l # 0 THEN ((luv[2] * 10000) \div (13 * l)) + 1978 ELSE 0
        v_prime == IF l # 0 THEN ((luv[3] * 10000) \div (13 * l)) + 4683 ELSE 0
        X == IF v_prime # 0 THEN (Y * 9 * u_prime) \div (4 * v_prime) ELSE 0
        Z == IF v_prime # 0
             THEN (Y * (120000 - (3 * u_prime) - (20 * v_prime))) \div (4 * v_prime) ELSE 0
    IN  << X, Y, Z >>

xyz_to_rgb(xyz) ==
    << ((32406 * xyz[1]) - (15372 * xyz[2]) - (4986 * xyz[3])) \div 10000,
       ((-9689 * xyz[1]) + (18758 * xyz[2]) + (415 * xyz[3])) \div 10000,
       ((557 * xyz[1]) - (2040 * xyz[2]) + (10570 * xyz[3])) \div 10000 >>

luv_to_rgb(luv) == xyz_to_rgb(luv_to_xyz(luv))

\* ------------------------------------------------------- generator kernels
NoImage == [ defined |-> FALSE, width |-> 0, height |-> 0, pixels |-> << >> ]

\* input_buffer[index] as the bytes <<R, G, B, A>> of the packed u32; past the end
\* of the buffer the read yields zero or the last element (policy)
ReadPixel(img, index, policy) ==
    IF index < Len(img.pixels) THEN img.pixels[index + 1]
    ELSE IF policy = "clamp" /\ Len(img.pixels) > 0 THEN img.pixels[Len(img.pixels)]
    ELSE << 0, 0, 0, 0 >>

\* fibLatticeKernel main: the six floats of point `index` of n
fibRecord(index, n) ==
    LET cosphi   == Fixed(n - (2 * index), n)
        sinphi   == ISqrt(1000000 - (cosphi * cosphi))
        theta    == ((222492 * index) % 360000) \div 1000
        c        == 1000
        x        == MulM(c, 1000 - Abs(Fixed((6 * index) % (2 * n), n) - 1000))
        m        == 0
        sector   == (6 * index) \div n
        colour   == CASE sector = 0 -> << c + m, x + m, m >>
                      [] sector = 1 -> << x + m, c + m, m >>
                      [] sector = 2 -> << m, c + m, x + m >>
                      [] sector = 3 -> << m, x + m, c + m >>
                      [] sector = 4 -> << x + m, m, c + m >>
                      [] OTHER      -> << c + m, m, x + m >>
    IN  << MulM(2 * sinphi, CosDeg(theta)), MulM(2 * sinphi, SinDeg(theta)), 2 * cosphi,
           colour[1], colour[2], colour[3] >>

\* ComputeRGBCube main
rgbCubeRecord(index) ==
    LET color == << Fixed(index % 256, 255), Fixed((index \div 256) % 256, 255),
                    Fixed((index \div 65536) % 256, 255) >>
    IN  << color[1], color[2], color[3], color[1], color[2], color[3] >>

\* RGBCubeFromPPM main
rgbFromPPMRecord(input) ==
    LET r == Fixed(input[1], 255)
        g == Fixed(input[2], 255)
        b == Fixed(input[3], 255)
    IN  << r, g, b, r, g, b >>

\* u32(pow(f32(n), 1.0/3.0)), taken as the exact integer cube root
GridSizeOf(n) == CHOOSE g \in 0..n : g * g * g <= n /\ (g + 1) * (g + 1) * (g + 1) > n

\* f32(k) / f32(grid_size - 1); a zero divisor yields z
gridComponent(k, grid_size, z) == IF grid_size - 1 = 0 THEN z ELSE Fixed(k, grid_size - 1)

\* rgbGridKernel main, lines "Calculate RGB values from grid position", for a buffer
\* of n points
gridRGB(index, n, z) ==
    LET grid_size == GridSizeOf(n)
    IN  << gridComponent(index % grid_size, grid_size, z),
           gridComponent((index \div grid_size) % grid_size, grid_size, z),
           gridComponent(index \div (grid_size * grid_size), grid_size, z) >>

\* rgbGridKernel main (part_016) and luvKernel main (cieluv.js)
luvGridRecord(v, index, n) ==
    LET rgb == gridRGB(index, n, NaN)
        r   == rgb[1]
        g   == rgb[2]
        b   == rgb[3]
        luv == xyz_to_luv(rgb_to_xyz(<< r, g, b >>))
        srgb == IF v = "grid64" THEN << r, g, b >> ELSE luv_to_rgb(luv)
    IN  << luv[1], luv[2], luv[3], srgb[1], srgb[2], srgb[3] >>

\* rgbToLUVKernel main (cieluv.js)
luvFromPPMRecord(input) ==
    LET rgb  == << Fixed(input[1], 255), Fixed(input[2], 255), Fixed(input[3], 255) >>
        luv  == xyz_to_luv(rgb_to_xyz(rgb))
        srgb == luv_to_rgb(luv)
    IN  << luv[1], luv[2], luv[3], srgb[1], srgb[2], srgb[3] >>

\* the early-return test of each generator kernel (TRUE: the invocation goes on)
generateGuard(v, img, buf, index) ==
    CASE v = "rgb" -> ~(index >= arrayLength(buf))
      [] v = "luv" /\ img.defined ->
             ~(index >= Len(img.pixels) \/ index >= arrayLength(buf) \div 6)
      [] OTHER -> ~(index >= arrayLength(buf) \div 6)

\* the six floats the generator of build v stores for point `index`
generateRecord(v, img, buf, index, policy) ==
    CASE v = "fib" -> fibRecord(index, arrayLength(buf) \div 6)
      [] v = "rgb" /\ ~img.defined -> rgbCubeRecord(index)
      [] v = "rgb" /\ img.defined -> rgbFromPPMRecord(ReadPixel(img, index, policy))
      [] v = "luv" /\ img.defined -> luvFromPPMRecord(ReadPixel(img, index, policy))
      [] OTHER -> luvGridRecord(v, index, arrayLength(buf) \div 6)

Max(S) == CHOOSE a \in S : \A b \in S : b <= a

MinOf(S) == CHOOSE a \in S : \A b \in S : a <= b

\* The possible results of the generator dispatch d on buf.  An out-of-bounds read
\* yields zero or the last element; an out-of-bounds write is dropped or lands on the
\* last float of the buffer (the first or the last out-of-bounds invocation winning).
generateOutcomes(v, img, buf, d) ==
    LET passed    == { i \in InvocationIndices(d) : generateGuard(v, img, buf, i) }
        stray     == { i \in passed : (i * 6) + 5 >= arrayLength(buf) }
        oobWrites == { (i * 6) + s : i \in stray, s \in 0..5 }
        oobReads  == IF img.defined THEN { i \in passed : i >= Len(img.pixels) } ELSE {}
        policies  == IF oobReads = {} THEN {"zero"} ELSE {"zero", "clamp"}
        winners   == IF stray = {} THEN {-1} ELSE {-1, MinOf(stray), Max(stray)}
        stored(p, policy) ==
            IF Invoked(d, p - 1) /\ generateGuard(v, img, buf, p - 1)
            THEN generateRecord(v, img, buf, p - 1, policy)
            ELSE buf[p]
        point(p, policy, w) ==
            IF w >= 0 /\ p = Len(buf)
            THEN [ stored(p, policy) EXCEPT ![6] = generateRecord(v, img, buf, w, policy)[6] ]
            ELSE stored(p, policy)
    IN  { [ buffer |-> [ p \in 1..Len(buf) |-> point(p, policy, w) ],
            access |-> [ kernel    |-> "generate",
                         passed    |-> passed,
                         oobWrites |-> oobWrites,
                         oobReads  |-> oobReads ] ] : policy \in policies, w \in winners }

\* ------------------------------------------------------------ construction
\* the images the renderer may hold: both pixels parsed, and a 2x2 header with only
\* three pixels parsed
Images ==
    { [ defined |-> TRUE, width |-> 2, height |-> 1,
        pixels |-> << << 255, 0, 0, 255 >>, << 0, 128, 255, 255 >> >> ],
      [ defined |-> TRUE, width |-> 2, height |-> 2,
        pixels |-> << << 255, 255, 255, 255 >>, << 0, 0, 0, 255 >>, << 51, 102, 204, 255 >> >> ] }

\* point counts of the Fibonacci lattices constructed
FibCounts == {3, 65}

RECURSIVE Pow2(_)
Pow2(b) == IF b = 0 THEN 1 ELSE 2 * Pow2(b - 1)

\* the numPoints each subclass constructor passes to super()
CubeNumPoints(bitDepth, img) ==
    IF img.defined THEN img.width * img.height ELSE Pow2(bitDepth) * Pow2(bitDepth) * Pow2(bitDepth)

GridNumPoints(gridSize, img) ==
    IF img.defined THEN img.width * img.height ELSE gridSize * gridSize * gridSize

\* the clouds the model constructs: <<build, numPoints, attached image, constructor
\* argument>>
Clouds ==
    { << "grid64", GridNumPoints(g, NoImage), NoImage, g >> : g \in 2..MaxGridSize }
    \cup { << "fib", n, NoImage, n >> : n \in FibCounts }
    \cup { << "rgb", CubeNumPoints(b, img), img, b >> :
              b \in 1..MaxBitDepth, img \in Images \cup {NoImage} }
    \cup { << "luv", GridNumPoints(g, img), img, g >> :
              g \in 2..MaxGridSize, img \in Images \cup {NoImage} }

\* device.createBuffer of n * 6 * 4 bytes: n records of six floats, zero-filled
createBuffer(n) == [ p \in 1..n |-> << 0, 0, 0, 0, 0, 0 >> ]

\* builds that keep a separate transformBindGroup and switch computeBindGroup
SwitchesBindGroup(v) == v \in {"rgb", "luv", "luvdata"}

\* initializeBuffer: the bind group and the dispatch of the init kernel
initBindGroup(v) == IF SwitchesBindGroup(v) THEN "init" ELSE "transform"

\* GPUBuffer.size of the vertex buffer, in bytes
BufferSize(buf) == 4 * arrayLength(buf)

\* mutant: one work item per point instead of one per float
initializeBufferPerPoint(v, buf) == compute(v, "init", initBindGroup(v), Len(buf))

initializeBuffer(v, buf) == compute(v, "init", initBindGroup(v), BufferSize(buf) \div 4)

Zero3 == << 0, 0, 0 >>

One3 == << 1, 1, 1 >>

NoSample == [ kernel |-> "none", index |-> 0, gridSize |-> 0, rgb |-> << >>,
              record |-> << >> ]

NoWidePlan == [ rows |-> 0, rest |-> 0, hostWG |-> 0, xGroups |-> 0, yGroups |-> 0,
                issued |-> FALSE ]

\* the default of the PointCloud constructor: vec3.create(), quat.create(), (1, 1, 1)
IdentityTransform ==
    [ position |-> << 0, 0, 0 >>, rotation |-> << 0, 0, 0, 1 >>, scale |-> << 1, 1, 1 >> ]

\* mat4.fromRotationTranslationScale(out, q, v, s) of gl-matrix, column-major
fromRotationTranslationScale(q, v, s) ==
    LET x2 == q[1] + q[1]
        y2 == q[2] + q[2]
        z2 == q[3] + q[3]
        xx == q[1] * x2
        xy == q[1] * y2
        xz == q[1] * z2
        yy == q[2] * y2
        yz == q[2] * z2
        zz == q[3] * z2
        wx == q[4] * x2
        wy == q[4] * y2
        wz == q[4] * z2
    IN  << (1 - (yy + zz)) * s[1], (xy + wz) * s[1], (xz - wy) * s[1], 0,
           (xy - wz) * s[2], (1 - (xx + zz)) * s[2], (yz + wx) * s[2], 0,
           (xz + wy) * s[3], (yz - wx) * s[3], (1 - (xx + yy)) * s[3], 0,
           v[1], v[2], v[3], 1 >>

\* mutant: the matrix of the default transform is written, whatever the transform
updateModelMatrixDefault(t) ==
    fromRotationTranslationScale(<< 0, 0, 0, 1 >>, << 0, 0, 0 >>, << 1, 1, 1 >>)

\* PointCloud.updateModelMatrix: what is written to modelMatrixBuffer
updateModelMatrix(t) == fromRotationTranslationScale(t.rotation, t.position, t.scale)

\* what queue.submit received for the dispatches q, none of them made by a frame
submissionsOf(q) ==
    [ k \in 1..Len(q) |-> [ kind |-> "dispatch", kernel |-> q[k].kernel, frame |-> 0 ] ]

\* the frame loop around a cloud whose dispatches so far are q: pc is the position of
\* generateCloud ("new": not called, "awaiting": suspended at its await, "done"),
\* frames the number of Renderer.render calls, animated the frames that ran with
\* animateRotation set, submitted what queue.submit received
loopOf(pc, q) ==
    [ pc |-> pc, frames |-> 0, animateRotation |-> TRUE, animated |-> {},
      submitted |-> submissionsOf(q) ]

\* no createGPUBuffer call made yet
NoBuffer == [ called |-> FALSE, hasData |-> FALSE,
              data |-> [ bytesPerElement |-> 0, elements |-> << >> ], size |-> 0,
              buffer |-> [ threw |-> FALSE, size |-> 0, wrote |-> FALSE,
                           written |-> [ bytesPerElement |-> 0, elements |-> << >> ] ] ]

\* ColorSpace of the cloud class of a build
ColorSpaceOf(v) == IF v = "rgb" THEN "sRGB" ELSE "CIELUV"

\* Renderer.ppmBuffer after `this.ppmBuffer = null`
NullBuffer == -1

\* mutant: the setter schedules the buffer it creates
markedBySetterNew(old, new) == {new}

\* what the ppmTextureData setter hands to markGPUBufferForDeletion, old being
\* this.ppmBuffer when it is called and new the buffer it creates:
\* `if (tmp !== null) this.markGPUBufferForDeletion(tmp)`
markedBySetter(old, new) == IF old # NullBuffer THEN {old} ELSE {}

\* the Renderer that holds the image img and a cloud of build v: ppmBuffer is 0 while
\* the field was never assigned, NullBuffer for null, else the id of the buffer; marked
\* is what markGPUBufferForDeletion was called with; pointCloud is the identity of the cloud object;
\* upload is what the last event was: "none", or the outcome of an upload
rendererOf(v, img) ==
    [ ppmBuffer         |-> IF img.defined THEN 1 ELSE 0,
      buffersCreated    |-> IF img.defined THEN 1 ELSE 0,
      marked            |-> {},
      pointCloud        |-> 1,
      currentColorSpace |-> ColorSpaceOf(v),
      upload            |-> "none",
      events            |-> 0 ]

\* the three buffers the PointCloud constructor creates
OwnedBuffers == {"vertexBuffer", "transformUniformBuffer", "modelMatrixBuffer"}

\* the buffers the constructor of a subclass creates after super()
SubclassBuffers(v) == IF v = "particles" THEN {"simParamsBuffer"} ELSE {}

\* new <subclass>(...): the PointCloud constructor, then the subclass's own buffers
Construct(c) ==
        LET buf == createBuffer(c[2])
            d   == initializeBuffer(c[1], buf)
            res == initKernel(buf, d)
        IN  /\ variant = c[1]
            /\ buffers = OwnedBuffers \cup SubclassBuffers(c[1])
            /\ destroyed = FALSE
            /\ argument = c[4]
            /\ sample = NoSample
            /\ renderer = rendererOf(c[1], c[3])
            /\ created = NoBuffer
            /\ transform = IdentityTransform
            /\ modelMatrixBuffer = updateModelMatrix(IdentityTransform)
            /\ loop = loopOf("new", << d >>)
            /\ numPoints = c[2]
            /\ image = c[3]
            /\ vertices = res.buffer
            /\ transformUniform = [ translation |-> Zero3, rotation |-> Zero3, scale |-> Zero3 ]
            /\ computeBindGroup = initBindGroup(c[1])
            /\ renderBindGroup = 0
            /\ bindGroupsCreated = 0
            /\ renders = 0
            /\ drawLog = << >>
            /\ generated = FALSE
            /\ generation = [ dispatch |-> NoDispatch, access |-> NoAccess, colours |-> << >> ]
            /\ queue = << d >>
            /\ dispatch = d
            /\ access = res.access
            /\ history = << >>
            /\ calls = 0
            /\ probe = NoProbe
            /\ widePlan = NoWidePlan

Init == \E c \in Clouds : Construct(c)

\* ------------------------------------------------------------- operations
\* the inputs of translate, rotate (quarter turns) and scale
Translations == { << 1000, -2000, 500 >> }

Rotations == { Zero3, << 0, 1, 0 >> }

Scales == { << 2, 1, -1 >> }

\* the inputs of a direct applyTransform call: <<translation, rotation, scale>>
Transforms == { << << -500, 0, 3000 >>, << 1, 2, 3 >>, << 3, -2, 1 >> >> }

Last2(h) == IF Len(h) > 2 THEN SubSeq(h, Len(h) - 1, Len(h)) ELSE h

\* applyTransform on a cloud whose buffer is buf: the uniform written, the bind group
\* the field is left with, the dispatch and its result
applyTransform(v, buf, bg, n, at, translation, rotation, scale) ==
    LET u   == [ translation |-> translation, rotation |-> rotation, scale |-> scale ]
        bg2 == IF SwitchesBindGroup(v) THEN "transform" ELSE bg
        d   == compute(v, "transform", bg2, n)
        res == transformKernel(v, buf, d, u)
    IN  [ uniform |-> u, bindGroup |-> bg2, dispatch |-> d,
          buffer |-> res.buffer, access |-> res.access,
          entry |-> [ uniform |-> u, before |-> buf, at |-> at ] ]

TransformCall(translation, rotation, scale) ==
    LET t == applyTransform(variant, vertices, computeBindGroup, numPoints,
                            Len(queue) + 1, translation, rotation, scale)
    IN  /\ calls < MaxCalls
        /\ calls' = calls + 1
        /\ transformUniform' = t.uniform
        /\ computeBindGroup' = t.bindGroup
        /\ vertices' = t.buffer
        /\ dispatch' = t.dispatch
        /\ access' = t.access
        /\ queue' = Append(queue, t.dispatch)
        /\ history' = Last2(Append(history, t.entry))
        /\ UNCHANGED << buffers, destroyed, widePlan, argument, sample, renderer, created,
                        transform, modelMatrixBuffer, loop, variant, numPoints, image,
                        renderBindGroup, bindGroupsCreated, renders, drawLog, generated,
                        generation, probe >>

Translate == \E t \in Translations : TransformCall(t, Zero3, One3)

Rotate == \E r \in Rotations : TransformCall(Zero3, r, One3)

Scale == \E s \in Scales : TransformCall(Zero3, Zero3, s)

ApplyTransform == \E a \in Transforms : TransformCall(a[1], a[2], a[3])

\* mutant: generateCloud leaves computeBindGroup as it finds it
generateBindGroupKept(v, img, bg) == bg

\* the bind group generateCloud stores in computeBindGroup before its dispatch
generateBindGroup(v, img, bg) ==
    CASE v = "rgb" -> IF img.defined THEN "rgbFromPPM" ELSE "rgbCube"
      [] v = "luv" -> IF img.defined THEN "ppm" ELSE "transform"
      [] v = "luvdata" -> "transform"
      [] OTHER -> bg

\* mutant: no build rotates
RotatesNever(v) == FALSE

\* builds whose generateCloud ends with this.rotate(0, 0, Math.PI / 2)
RotatesAfterGenerate(v) == v \in {"grid64", "luv", "luvdata"}

\* generateCloud on a cloud whose buffer is buf: every outcome of the generator
\* dispatch, followed by the rotation the build ends with
generateCloud(v, img, buf, bg0, n, q, hist, tu) ==
    LET bg == generateBindGroup(v, img, bg0)
        d  == compute(v, "generate", bg, n)
    IN  UNION { { LET gen == [ dispatch |-> d, access |-> out.access,
                               colours |-> [ p \in 1..Len(out.buffer) |->
                                               SubSeq(out.buffer[p], 4, 6) ] ]
                  IN  IF RotatesAfterGenerate(v)
                      THEN [ generation |-> gen, vertices |-> t.buffer,
                             transformUniform |-> t.uniform,
                             computeBindGroup |-> t.bindGroup,
                             dispatch |-> t.dispatch, access |-> t.access,
                             queue |-> Append(Append(q, d), t.dispatch),
                             history |-> Last2(Append(hist, t.entry)) ]
                      ELSE [ generation |-> gen, vertices |-> out.buffer,
                             transformUniform |-> tu, computeBindGroup |-> bg,
                             dispatch |-> d, access |-> out.access,
                             queue |-> Append(q, d), history |-> hist ]
                  : t \in { applyTransform(v, out.buffer, bg, n, Len(q) + 2,
                                           Zero3, << 0, 0, 1 >>, One3) } }
                : out \in generateOutcomes(v, img, buf, d) }

GenerateCloud ==
    /\ calls < MaxCalls
    /\ ~generated
    /\ \E g \in generateCloud(variant, image, vertices, computeBindGroup, numPoints,
                              queue, history, transformUniform) :
         /\ generation' = g.generation
         /\ vertices' = g.vertices
         /\ transformUniform' = g.transformUniform
         /\ computeBindGroup' = g.computeBindGroup
         /\ dispatch' = g.dispatch
         /\ access' = g.access
         /\ queue' = g.queue
         /\ history' = g.history
    /\ generated' = TRUE
    /\ calls' = calls + 1
    /\ UNCHANGED << buffers, destroyed, widePlan, argument, sample, renderer, created,
                    transform, modelMatrixBuffer, loop, variant, numPoints, image,
                    renderBindGroup, bindGroupsCreated, renders, drawLog, probe >>

\* mutant: the cached bind group is not looked at
renderAlwaysCreates(rbg) == TRUE

\* PointCloud.render: `if (!this.renderBindGroup)`
renderCreatesBindGroup(rbg) == rbg = 0

\* PointCloud.render
Render ==
    /\ calls < MaxCalls
    /\ calls' = calls + 1
    /\ IF renderCreatesBindGroup(renderBindGroup)
       THEN /\ renderBindGroup' = bindGroupsCreated + 1
            /\ bindGroupsCreated' = bindGroupsCreated + 1
       ELSE UNCHANGED << renderBindGroup, bindGroupsCreated >>
    /\ renders' = renders + 1
    /\ drawLog' = Append(drawLog, numPoints)
    /\ UNCHANGED << buffers, destroyed, widePlan, argument, sample, renderer, created,
                    transform, modelMatrixBuffer, loop, variant, numPoints, image,
                    vertices, transformUniform, computeBindGroup, generated, generation,
                    queue, dispatch, access, history, probe >>

Next == GenerateCloud \/ Translate \/ Rotate \/ Scale \/ ApplyTransform \/ Render

Spec == Init /\ [][Next]_vars

\* ------------------------------------------------------- the model transform
\* the transforms handed to setTransform: the default, a half turn about Z with a
\* translation and a scale, and a half turn about X
TransformInputs ==
    { IdentityTransform,
      [ position |-> << 1000, -2000, 500 >>, rotation |-> << 0, 0, 1, 0 >>,
        scale |-> << 2, 1, -1 >> ],
      [ position |-> << 0, 0, 0 >>, rotation |-> << 1, 0, 0, 0 >>,
        scale |-> << 1, 1, 1 >> ] }

\* PointCloud.setTransform
SetTransform ==
    /\ calls < MaxCalls
    /\ calls' = calls + 1
    /\ \E t \in TransformInputs :
         /\ transform' = t
         /\ modelMatrixBuffer' = updateModelMatrix(t)
    /\ UNCHANGED << buffers, destroyed, widePlan, argument, sample, renderer, created,
                    loop, variant, numPoints, image, vertices, transformUniform,
                    computeBindGroup, renderBindGroup, bindGroupsCreated, renders,
                    drawLog, generated, generation, queue, dispatch, access, history,
                    probe >>

\* the clouds whose model transform is followed
ModelClouds == { c \in Clouds : c[1] \in {"grid64", "fib"} /\ c[2] <= 8 }

ModelInit == \E c \in ModelClouds : Construct(c)

ModelNext == GenerateCloud \/ Translate \/ Rotate \/ Scale \/ Render \/ SetTransform

ModelSpec == ModelInit /\ [][ModelNext]_vars

\* ------------------------------------------------------- the life of a cloud
\* device.limits.maxStorageBufferBindingSize of the device the clouds are created on,
\* in bytes
maxStorageBufferBindingSize == 2048

\* particle counts of the particle systems constructed: within the device limit, and
\* beyond it
ParticleCounts == {4, (maxStorageBufferBindingSize \div 24) + 15}

ParticleSystems == { << "particles", n, NoImage, n >> : n \in ParticleCounts }

\* the images handed to the two-argument CIELUVPointCloud constructor: three pixels in
\* one row, and six pixels in two rows, four bytes each
PassedImages ==
    { [ defined |-> TRUE, width |-> 3, height |-> 1,
        pixels |-> << << 255, 0, 0, 255 >>, << 0, 255, 0, 255 >>, << 0, 0, 255, 255 >> >> ],
      [ defined |-> TRUE, width |-> 3, height |-> 2,
        pixels |-> << << 255, 0, 0, 255 >>, << 0, 255, 0, 255 >>, << 0, 0, 255, 255 >>,
                      << 0, 0, 0, 255 >>, << 255, 255, 255, 255 >>,
                      << 51, 102, 204, 255 >> >> ] }

\* ppmTexture.data.byteLength: parsePPM3 stores the bytes R, G, B, 255 of every pixel
byteLength(img) == 4 * Len(img.pixels)

\* the numPoints the two-argument CIELUVPointCloud constructor passes to super()
GridNumPointsOfData(gridSize, img) ==
    IF img.defined THEN byteLength(img) \div 3 ELSE gridSize * gridSize * gridSize

\* clouds of the two-argument CIELUVPointCloud build
DataClouds ==
    { << "luvdata", GridNumPointsOfData(g, img), img, g >> :
        g \in 2..MaxGridSize, img \in PassedImages \cup {NoImage} }

LifeInit == \E c \in Clouds \cup ParticleSystems \cup DataClouds : Construct(c)

\* builds whose PointCloud has a destroy method
HasDestroy(v) == v \in {"rgb", "luv", "luvdata", "particles"}

\* mutant: the override also releases what the base class owns
destroyReleasesAll(v) == OwnedBuffers \cup SubclassBuffers(v)

\* the buffers destroy() calls .destroy() on: PointCloud.destroy, or the override of
\* ParticleSystem, which does not call super.destroy()
destroyReleases(v) == IF v = "particles" THEN {"simParamsBuffer"} ELSE OwnedBuffers

Destroy ==
    /\ HasDestroy(variant)
    /\ buffers' = buffers \ destroyReleases(variant)
    /\ destroyed' = TRUE
    /\ UNCHANGED << argument, sample, renderer, created, transform, modelMatrixBuffer,
                    loop, variant, numPoints, image, vertices, transformUniform,
                    computeBindGroup, renderBindGroup, bindGroupsCreated, renders,
                    drawLog, generated, generation, queue, dispatch, access, history,
                    calls, probe, widePlan >>

\* ParticleSystem.generateCloud: an empty body
ParticleGenerateCloud ==
    /\ variant = "particles"
    /\ calls < MaxCalls
    /\ ~generated
    /\ generated' = TRUE
    /\ calls' = calls + 1
    /\ UNCHANGED << buffers, destroyed, widePlan, argument, sample, renderer, created,
                    transform, modelMatrixBuffer, loop, variant, numPoints, image,
                    vertices, transformUniform, computeBindGroup, renderBindGroup,
                    bindGroupsCreated, renders, drawLog, generation, queue, dispatch,
                    access, history, probe >>

\* a cloud is generated once, rendered and rotated frame after frame, then destroyed;
\* nothing is called on a destroyed cloud.  generateCloud of the two-argument
\* CIELUVPointCloud build, which awaits a buffer mapping, is not among the steps
LifeNext ==
    /\ ~destroyed
    /\ \/ variant \in Variants /\ GenerateCloud
       \/ ParticleGenerateCloud
       \/ Render
       \/ Rotate
       \/ Destroy

LifeSpec == LifeInit /\ [][LifeNext]_vars

\* ------------------------------------------------------------ the frame loop
\* number of frames followed
MaxFrames == 2

\* most points of a cloud put in the frame loop
MaxFramePoints == 8

\* generateCloud of the two-argument CIELUVPointCloud awaits stagingBuffer.mapAsync
\* when an image was passed
AwaitsReadback(v, img) == v = "luvdata" /\ img.defined

\* the clouds handed to setPointCloud; of the two-argument CIELUVPointCloud those
\* whose grid kernel has a grid of more than one point per side
FrameClouds ==
    { c \in Clouds \cup DataClouds :
        c[2] <= MaxFramePoints /\ (c[1] = "luvdata" => GridSizeOf(c[2]) >= 2) }

FrameInit == \E c \in FrameClouds : Construct(c)

\* mutant: the frame's command buffer is submitted before its transform dispatch
frameSubmissionsRenderFirst(f, animate) ==
    << [ kind |-> "render", kernel |-> "draw", frame |-> f ] >>
    \o (IF animate THEN << [ kind |-> "dispatch", kernel |-> "transform", frame |-> f ] >>
        ELSE << >>)

\* what frame f hands to queue.submit, in order: the dispatch of rotate, made inside
\* compute(), then the command buffer with the render pass
frameSubmissions(f, animate) ==
    (IF animate THEN << [ kind |-> "dispatch", kernel |-> "transform", frame |-> f ] >>
     ELSE << >>)
    \o << [ kind |-> "render", kernel |-> "draw", frame |-> f ] >>

\* Renderer.setPointCloud(cloud): the cloud is made current and generateCloud is
\* called and not awaited; it runs to its end, or to its await
SetPointCloud ==
    /\ loop.pc = "new"
    /\ IF AwaitsReadback(variant, image)
       THEN LET d == compute(variant, "rgbToXYZ", "ppm", numPoints)
            IN  /\ computeBindGroup' = "ppm"
                /\ dispatch' = d
                /\ access' = [ NoAccess EXCEPT !.kernel = "rgbToXYZ" ]
                /\ queue' = Append(queue, d)
                /\ loop' = [ loop EXCEPT !.pc = "awaiting",
                                         !.submitted = Append(loop.submitted,
                                             [ kind |-> "dispatch", kernel |-> "rgbToXYZ",
                                               frame |-> 0 ]) ]
                /\ UNCHANGED << generation, vertices, transformUniform, history,
                                generated >>
       ELSE \E g \in generateCloud(variant, image, vertices, computeBindGroup,
                                   numPoints, queue, history, transformUniform) :
                /\ generation' = g.generation
                /\ vertices' = g.vertices
                /\ transformUniform' = g.transformUniform
                /\ computeBindGroup' = g.computeBindGroup
                /\ dispatch' = g.dispatch
                /\ access' = g.access
                /\ queue' = g.queue
                /\ history' = g.history
                /\ generated' = TRUE
                /\ loop' = [ loop EXCEPT !.pc = "done",
                                         !.submitted = submissionsOf(g.queue) ]
    /\ calls' = calls + 1
    /\ UNCHANGED << buffers, destroyed, widePlan, argument, sample, renderer, created,
                    transform, modelMatrixBuffer, variant, numPoints, image,
                    renderBindGroup, bindGroupsCreated, renders, drawLog, probe >>

\* generateCloud resumes after its await: the grid kernel, then the rotation
ResumeGenerateCloud ==
    /\ loop.pc = "awaiting"
    /\ \E g \in generateCloud(variant, NoImage, vertices, computeBindGroup, numPoints,
                              queue, history, transformUniform) :
         /\ generation' = g.generation
         /\ vertices' = g.vertices
         /\ transformUniform' = g.transformUniform
         /\ computeBindGroup' = g.computeBindGroup
         /\ dispatch' = g.dispatch
         /\ access' = g.access
         /\ queue' = g.queue
         /\ history' = g.history
         /\ loop' = [ loop EXCEPT !.pc = "done",
                                  !.submitted = loop.submitted
                                     \o SubSeq(submissionsOf(g.queue), Len(queue) + 1,
                                               Len(g.queue)) ]
    /\ generated' = TRUE
    /\ UNCHANGED << buffers, destroyed, widePlan, argument, sample, renderer, created,
                    transform, modelMatrixBuffer, variant, numPoints, image,
                    renderBindGroup, bindGroupsCreated, renders, drawLog, calls, probe >>

\* Renderer.render: pointCloud.render(renderPass), pointCloud.rotate(0, dt * 0.2, 0)
\* when animateRotation is set, then the submission of the frame's command buffer
Frame ==
    /\ loop.pc # "new"
    /\ loop.frames < MaxFrames
    /\ IF renderCreatesBindGroup(renderBindGroup)
       THEN /\ renderBindGroup' = bindGroupsCreated + 1
            /\ bindGroupsCreated' = bindGroupsCreated + 1
       ELSE UNCHANGED << renderBindGroup, bindGroupsCreated >>
    /\ renders' = renders + 1
    /\ drawLog' = Append(drawLog, numPoints)
    /\ IF loop.animateRotation
       THEN \E r \in Rotations :
              \E t \in { applyTransform(variant, vertices, computeBindGroup, numPoints,
                                        Len(queue) + 1, Zero3, r, One3) } :
                /\ transformUniform' = t.uniform
                /\ computeBindGroup' = t.bindGroup
                /\ vertices' = t.buffer
                /\ dispatch' = t.dispatch
                /\ access' = t.access
                /\ queue' = Append(queue, t.dispatch)
                /\ history' = Last2(Append(history, t.entry))
       ELSE UNCHANGED << transformUniform, computeBindGroup, vertices, dispatch, access,
                         queue, history >>
    /\ loop' = [ loop EXCEPT
                   !.frames = loop.frames + 1,
                   !.animated = IF loop.animateRotation
                                THEN loop.animated \cup {loop.frames + 1}
                                ELSE loop.animated,
                   !.submitted = loop.submitted
                                   \o frameSubmissions(loop.frames + 1,
                                                       loop.animateRotation) ]
    /\ calls' = calls + 1
    /\ UNCHANGED << buffers, destroyed, widePlan, argument, sample, renderer, created,
                    transform, modelMatrixBuffer, variant, numPoints, image, generated,
                    generation, probe >>

\* the key handler that toggles WGPU_RENDERER.animateRotation
ToggleAnimateRotation ==
    /\ loop.frames < MaxFrames
    /\ loop' = [ loop EXCEPT !.animateRotation = ~loop.animateRotation ]
    /\ UNCHANGED << buffers, destroyed, widePlan, argument, sample, renderer, created,
                    transform, modelMatrixBuffer, variant, numPoints, image, vertices,
                    transformUniform, computeBindGroup, renderBindGroup,
                    bindGroupsCreated, renders, drawLog, generated, generation, queue,
                    dispatch, access, history, calls, probe >>

FrameNext == SetPointCloud \/ ResumeGenerateCloud \/ Frame \/ ToggleAnimateRotation

FrameSpec == FrameInit /\ [][FrameNext]_vars

\* ------------------------------------------------- single kernel invocations
\* largest grid size of the clouds whose generator kernel is sampled
MaxSampleGrid == 4

\* what a float division by zero may yield: not-a-number, or an indeterminate value
ZeroDivisionResults == {NaN, 0}

\* CIELUV clouds of every grid size from 1, and CIELUV clouds of an attached image
KernelInit ==
    \/ \E v \in {"grid64", "luv"}, n \in 1..MaxSampleGrid :
         Construct(<< v, GridNumPoints(n, NoImage), NoImage, n >>)
    \/ \E img \in Images : Construct(<< "luv", GridNumPoints(2, img), img, 2 >>)

\* invocation `index` of rgbGridKernel / luvKernel on the cloud's buffer
SampleGridKernel ==
    /\ sample = NoSample
    /\ ~image.defined
    /\ \E index \in 0..(numPoints - 1), z \in ZeroDivisionResults :
         /\ generateGuard(variant, image, vertices, index)
         /\ sample' = [ kernel   |-> "grid",
                        index    |-> index,
                        gridSize |-> GridSizeOf(arrayLength(vertices) \div 6),
                        rgb      |-> gridRGB(index, arrayLength(vertices) \div 6, z),
                        record   |-> IF GridSizeOf(arrayLength(vertices) \div 6) = 1
                                     THEN << z, z, z, z, z, z >>
                                     ELSE luvGridRecord(variant, index,
                                                        arrayLength(vertices) \div 6) ]
    /\ UNCHANGED << buffers, destroyed, widePlan, argument, renderer, created, transform,
                    modelMatrixBuffer, loop, variant, numPoints, image, vertices,
                    transformUniform, computeBindGroup, renderBindGroup,
                    bindGroupsCreated, renders, drawLog, generated, generation, queue,
                    dispatch, access, history, calls, probe >>

\* invocation `index` of rgbToLUVKernel on the cloud's buffer and the attached image
SampleImageKernel ==
    /\ sample = NoSample
    /\ image.defined
    /\ \E index \in 0..(numPoints - 1) :
         /\ generateGuard(variant, image, vertices, index)
         /\ LET input == ReadPixel(image, index, "zero")
            IN  sample' = [ kernel   |-> "image",
                           index    |-> index,
                           gridSize |-> 0,
                           rgb      |-> << Fixed(input[1], 255), Fixed(input[2], 255),
                                           Fixed(input[3], 255) >>,
                           record   |-> luvFromPPMRecord(input) ]
    /\ UNCHANGED << buffers, destroyed, widePlan, argument, renderer, created, transform,
                    modelMatrixBuffer, loop, variant, numPoints, image, vertices,
                    transformUniform, computeBindGroup, renderBindGroup,
                    bindGroupsCreated, renders, drawLog, generated, generation, queue,
                    dispatch, access, history, calls, probe >>

\* number of steps per channel of the RGB inputs the conversions are applied to
ColourSteps == 4

\* the RGB inputs: a lattice over [0,1]^3
ColourInputs ==
    { << Fixed(r, ColourSteps), Fixed(g, ColourSteps), Fixed(b, ColourSteps) >> :
        r \in 0..ColourSteps, g \in 0..ColourSteps, b \in 0..ColourSteps }

\* the conversions of the kernels applied to one RGB input: record holds
\* xyz_to_rgb(rgb_to_xyz(rgb)), then luv_to_rgb(xyz_to_luv(rgb_to_xyz(rgb)))
SampleRoundTrip ==
    /\ sample = NoSample
    /\ \E rgb \in ColourInputs :
         LET xyz    == rgb_to_xyz(rgb)
             direct == xyz_to_rgb(xyz)
             chain  == luv_to_rgb(xyz_to_luv(xyz))
         IN  sample' = [ kernel   |-> "roundtrip",
                         index    |-> 0,
                         gridSize |-> 0,
                         rgb      |-> rgb,
                         record   |-> << direct[1], direct[2], direct[3],
                                         chain[1], chain[2], chain[3] >> ]
    /\ UNCHANGED << buffers, destroyed, widePlan, argument, renderer, created, transform,
                    modelMatrixBuffer, loop, variant, numPoints, image, vertices,
                    transformUniform, computeBindGroup, renderBindGroup,
                    bindGroupsCreated, renders, drawLog, generated, generation, queue,
                    dispatch, access, history, calls, probe >>

KernelNext == SampleGridKernel \/ SampleImageKernel \/ SampleRoundTrip

KernelSpec == KernelInit /\ [][KernelNext]_vars

\* ---------------------------------------------------- the dispatch planner
\* workItems handed to compute(): the small counts and those around each multiple
\* of one full row of workgroups
PlanWorkItems(v) ==
    {1, 63, 64, 65, 255, 256, 257, 1000000}
    \cup { (k * DispatchLimit * HostWorkgroupSize(v)) + e :
             k \in 1..2, e \in (-PlanSlack)..PlanSlack }

\* flat indices looked up in a planned dispatch
ProbeIndices(d) ==
    { i \in {0, 1, d.workItems - 1, d.workItems, (d.total * d.hostWG) - 1}
            \cup { (k * DispatchLimit * d.kernelWG) + e : k \in 1..2, e \in {-1, 0, 1} } :
        i >= 0 /\ i < d.xGroups * d.yGroups * d.kernelWG }

\* compute() applied to a work-item count, by the init or the transform pipeline
PlanCompute ==
    /\ \E kernel \in {"init", "transform"} : \E w \in PlanWorkItems(variant) :
         dispatch' = compute(variant, kernel, computeBindGroup, w)
    /\ probe' = NoProbe
    /\ widePlan' = NoWidePlan
    /\ UNCHANGED << buffers, destroyed, argument, sample, renderer, created, transform,
                    modelMatrixBuffer, loop, variant, numPoints, image, vertices,
                    transformUniform, computeBindGroup, renderBindGroup,
                    bindGroupsCreated, renders, drawLog, generated, generation, queue,
                    access, history, calls >>

\* the invocations of the planned dispatch whose flat index is a given value
ProbeIndex ==
    /\ \E i \in ProbeIndices(dispatch) :
         probe' = [ index |-> i, invokers |-> Invokers(dispatch, i) ]
    /\ UNCHANGED << buffers, destroyed, widePlan, argument, sample, renderer, created,
                    transform, modelMatrixBuffer, loop, variant, numPoints, image,
                    vertices, transformUniform, computeBindGroup, renderBindGroup,
                    bindGroupsCreated, renders, drawLog, generated, generation, queue,
                    dispatch, access, history, calls >>

\* PointCloud.compute for workItems = rows * (65535 * WORKGROUP_SIZE) + rest, with
\* 0 <= rest < 65535 * WORKGROUP_SIZE: the same three lines, with totalWorkgroups kept
\* as rows * 65535 + ceil(rest / WORKGROUP_SIZE).  dispatchWorkgroups is reached on
\* every path.
computeWide(v, rows, rest) ==
    LET restGroups == CeilDiv(rest, HostWorkgroupSize(v))
    IN  [ rows    |-> rows,
          rest    |-> rest,
          hostWG  |-> HostWorkgroupSize(v),
          xGroups |-> IF rows = 0 THEN Min(restGroups, DispatchLimit) ELSE DispatchLimit,
          yGroups |-> rows + CeilDiv(restGroups, DispatchLimit),
          issued  |-> TRUE ]

\* work-item counts around WORKGROUP_SIZE * 65535 * 65535, as <<rows, rest>>
WideWorkItems(v) ==
    { << DispatchLimit + r, e >> : r \in (-1)..1,
                                  e \in {0, 1, HostWorkgroupSize(v), HostWorkgroupSize(v) + PlanSlack} }

\* compute() applied to a work-item count that does not fit 32 bits
PlanComputeWide ==
    /\ \E w \in WideWorkItems(variant) : widePlan' = computeWide(variant, w[1], w[2])
    /\ probe' = NoProbe
    /\ UNCHANGED << buffers, destroyed, argument, sample, renderer, created, transform,
                    modelMatrixBuffer, loop, variant, numPoints, image, vertices,
                    transformUniform, computeBindGroup, renderBindGroup,
                    bindGroupsCreated, renders, drawLog, generated, generation, queue,
                    dispatch, access, history, calls >>

PlanNext == PlanCompute \/ ProbeIndex \/ PlanComputeWide

PlanSpec == Init /\ [][PlanNext]_vars

\* --------------------------------------------------- the renderer and uploads
\* the grid size and the bit depth of the clouds the Renderer constructs
RendererGridSize == 2

RendererBitDepth == 1

\* number of sidebar events followed
MaxEvents == 4

\* the first lines a picked file may have
Headers == {"P3", "P6", ""}

\* the files a user may pick: the first line of the text, and the image the lines after
\* it describe
Files == { [ header |-> h, image |-> img ] : h \in Headers, img \in Images }

\* mutant: the first line is not looked at
parsePPM3AnyHeader(file) == file.image

\* util.parsePPM3: null (here the undefined image) unless the first line is 'P3'
parsePPM3(file) == IF file.header # "P3" THEN NoImage ELSE file.image

\* the build of the cloud class setColorSpace constructs, and the argument it passes
VariantOf(colorSpace) == IF colorSpace = "sRGB" THEN "rgb" ELSE "luv"

ArgumentOf(colorSpace) ==
    IF colorSpace = "sRGB" THEN RendererBitDepth ELSE RendererGridSize

\* new <cloud class>(argument) followed by generateCloud(), with img attached to the
\* renderer: every cloud that may result
newPointCloud(v, img, arg) ==
    LET n   == IF v = "rgb" THEN CubeNumPoints(arg, img) ELSE GridNumPoints(arg, img)
        buf == createBuffer(n)
        d   == initializeBuffer(v, buf)
        res == initKernel(buf, d)
        tu  == [ translation |-> Zero3, rotation |-> Zero3, scale |-> Zero3 ]
    IN  { [ variant |-> v, argument |-> arg, numPoints |-> n, cloud |-> g ] :
            g \in generateCloud(v, img, res.buffer, initBindGroup(v), n, << d >>,
                                << >>, tu) }

\* the Renderer after init(): no image, a generated CIELUV cloud
RendererInit ==
    \E c \in newPointCloud("luv", NoImage, RendererGridSize) :
        /\ variant = c.variant
        /\ argument = c.argument
        /\ numPoints = c.numPoints
        /\ image = NoImage
        /\ vertices = c.cloud.vertices
        /\ transformUniform = c.cloud.transformUniform
        /\ computeBindGroup = c.cloud.computeBindGroup
        /\ generation = c.cloud.generation
        /\ queue = c.cloud.queue
        /\ dispatch = c.cloud.dispatch
        /\ access = c.cloud.access
        /\ history = c.cloud.history
        /\ generated = TRUE
        /\ calls = 1
        /\ renderBindGroup = 0
        /\ bindGroupsCreated = 0
        /\ renders = 0
        /\ drawLog = << >>
        /\ buffers = OwnedBuffers
        /\ destroyed = FALSE
        /\ probe = NoProbe
        /\ widePlan = NoWidePlan
        /\ sample = NoSample
        /\ created = NoBuffer
        /\ renderer = rendererOf("luv", NoImage)
        /\ transform = IdentityTransform
        /\ modelMatrixBuffer = updateModelMatrix(IdentityTransform)
        /\ loop = loopOf("done", c.cloud.queue)

\* Renderer.setColorSpace with img attached: the current cloud is destroyed, a cloud of
\* the colour space is constructed, made current and generated
setColorSpace(colorSpace, img) ==
    \E c \in newPointCloud(VariantOf(colorSpace), img, ArgumentOf(colorSpace)) :
        /\ variant' = c.variant
        /\ argument' = c.argument
        /\ numPoints' = c.numPoints
        /\ vertices' = c.cloud.vertices
        /\ transformUniform' = c.cloud.transformUniform
        /\ computeBindGroup' = c.cloud.computeBindGroup
        /\ generation' = c.cloud.generation
        /\ queue' = c.cloud.queue
        /\ dispatch' = c.cloud.dispatch
        /\ access' = c.cloud.access
        /\ history' = c.cloud.history
        /\ generated' = TRUE
        /\ calls' = 1
        /\ renderBindGroup' = 0
        /\ bindGroupsCreated' = 0
        /\ renders' = 0
        /\ drawLog' = << >>
        /\ buffers' = OwnedBuffers
        /\ destroyed' = FALSE
        /\ transform' = IdentityTransform
        /\ modelMatrixBuffer' = updateModelMatrix(IdentityTransform)
        /\ loop' = loopOf("done", c.cloud.queue)

\* the change handler of the upload button, given a file
Upload ==
    /\ renderer.events < MaxEvents
    /\ \E file \in Files :
         LET ppm == parsePPM3(file)
         IN  IF ppm.defined
             THEN /\ image' = ppm
                  /\ renderer' = [ renderer EXCEPT
                                     !.ppmBuffer = renderer.buffersCreated + 1,
                                     !.buffersCreated = renderer.buffersCreated + 1,
                                     !.marked = renderer.marked
                                        \cup markedBySetter(renderer.ppmBuffer,
                                                            renderer.buffersCreated + 1),
                                     !.pointCloud = renderer.pointCloud + 1,
                                     !.upload = file.header,
                                     !.events = renderer.events + 1 ]
                  /\ setColorSpace(renderer.currentColorSpace, ppm)
             ELSE /\ renderer' = [ renderer EXCEPT !.upload = file.header,
                                                   !.events = renderer.events + 1 ]
                  /\ UNCHANGED << transform, modelMatrixBuffer, loop, variant, argument,
                                  numPoints, image, vertices, transformUniform,
                                  computeBindGroup, generation, queue, dispatch, access,
                                  history, generated, calls, renderBindGroup,
                                  bindGroupsCreated, renders, drawLog, buffers, destroyed
                                  >>
    /\ UNCHANGED << probe, widePlan, sample, created >>

\* the click handler of the remove button: removePPMTexture, then setColorSpace
RemoveTexture ==
    /\ renderer.events < MaxEvents
    /\ image' = NoImage
    /\ renderer' = [ renderer EXCEPT
                       !.ppmBuffer = NullBuffer,
                       !.marked = renderer.marked \cup {renderer.ppmBuffer},
                       !.pointCloud = renderer.pointCloud + 1,
                       !.upload = "none",
                       !.events = renderer.events + 1 ]
    /\ setColorSpace(renderer.currentColorSpace, NoImage)
    /\ UNCHANGED << probe, widePlan, sample, created >>

\* the click handler of a colour space item
SelectColorSpace ==
    /\ renderer.events < MaxEvents
    /\ \E colorSpace \in {"CIELUV", "sRGB"} :
         /\ renderer' = [ renderer EXCEPT
                            !.currentColorSpace = colorSpace,
                            !.pointCloud = renderer.pointCloud + 1,
                            !.upload = "none",
                            !.events = renderer.events + 1 ]
         /\ setColorSpace(colorSpace, image)
    /\ UNCHANGED << image, probe, widePlan, sample, created >>

UploadNext == Upload \/ RemoveTexture \/ SelectColorSpace

UploadSpec == RendererInit /\ [][UploadNext]_vars

\* ------------------------------------------------- the renderer's public calls
\* Renderer.releasePointcloud: destroy() on the current cloud, which stays current
releasePointcloud ==
    /\ buffers' = buffers \ destroyReleases(variant)
    /\ destroyed' = TRUE

ReleasePointcloud ==
    /\ renderer.events < MaxEvents
    /\ releasePointcloud
    /\ renderer' = [ renderer EXCEPT !.upload = "none", !.events = renderer.events + 1 ]
    /\ UNCHANGED << transform, modelMatrixBuffer, loop, variant, argument, numPoints,
                    image, vertices, transformUniform, computeBindGroup, generation,
                    queue, dispatch, access, history, generated, calls, renderBindGroup,
                    bindGroupsCreated, renders, drawLog, probe, widePlan, sample,
                    created >>

\* Renderer.setColorSpace with a value that is no member of ColorSpace:
\* releasePointcloud, then the default branch, which logs an error
SetInvalidColorSpace ==
    /\ renderer.events < MaxEvents
    /\ releasePointcloud
    /\ renderer' = [ renderer EXCEPT !.upload = "invalid",
                                     !.events = renderer.events + 1 ]
    /\ UNCHANGED << transform, modelMatrixBuffer, loop, variant, argument, numPoints,
                    image, vertices, transformUniform, computeBindGroup, generation,
                    queue, dispatch, access, history, generated, calls, renderBindGroup,
                    bindGroupsCreated, renders, drawLog, probe, widePlan, sample,
                    created >>

\* the ppmTextureData setter given undefined: the texture is dropped and the buffer
\* scheduled, the field ppmBuffer keeps its value
ClearPPMTextureData ==
    /\ renderer.events < MaxEvents
    /\ image' = NoImage
    /\ renderer' = [ renderer EXCEPT
                       !.marked = renderer.marked
                                    \cup markedBySetter(renderer.ppmBuffer,
                                                        renderer.ppmBuffer),
                       !.upload = "none",
                       !.events = renderer.events + 1 ]
    /\ UNCHANGED << transform, modelMatrixBuffer, loop, variant, argument, numPoints,
                    vertices, transformUniform, computeBindGroup, generation, queue,
                    dispatch, access, history, generated, calls, renderBindGroup,
                    bindGroupsCreated, renders, drawLog, buffers, destroyed, probe,
                    widePlan, sample, created >>

\* Renderer.render while the current cloud is destroyed: render and rotate are called
\* on it all the same; what they submit uses destroyed buffers and is rejected, so
\* the buffers and the queue stay as they are
FrameOnDestroyed ==
    /\ destroyed
    /\ loop.frames < MaxFrames
    /\ IF renderCreatesBindGroup(renderBindGroup)
       THEN /\ renderBindGroup' = bindGroupsCreated + 1
            /\ bindGroupsCreated' = bindGroupsCreated + 1
       ELSE UNCHANGED << renderBindGroup, bindGroupsCreated >>
    /\ renders' = renders + 1
    /\ drawLog' = Append(drawLog, numPoints)
    /\ loop' = [ loop EXCEPT
                   !.frames = loop.frames + 1,
                   !.animated = IF loop.animateRotation
                                THEN loop.animated \cup {loop.frames + 1}
                                ELSE loop.animated ]
    /\ calls' = calls + 1
    /\ UNCHANGED << buffers, destroyed, widePlan, argument, sample, renderer, created,
                    transform, modelMatrixBuffer, variant, numPoints, image, generated,
                    generation, probe, transformUniform, computeBindGroup, vertices,
                    dispatch, access, queue, history >>

\* the calls that attach and detach the image
TextureNext == Upload \/ RemoveTexture \/ ClearPPMTextureData \/ SelectColorSpace

TextureSpec == RendererInit /\ [][TextureNext]_vars

\* the calls that replace and release the cloud, and the frames between them
RendererNext ==
    \/ RemoveTexture
    \/ SelectColorSpace
    \/ ReleasePointcloud
    \/ SetInvalidColorSpace
    \/ ~destroyed /\ Frame
    \/ FrameOnDestroyed

RendererSpec == RendererInit /\ [][RendererNext]_vars

\* ------------------------------------------------------------ createGPUBuffer
\* largest size argument, and longest data array, passed to createGPUBuffer
MaxBufferSize == 20

MaxDataLength == 3

\* BYTES_PER_ELEMENT of a Float32Array
FloatBytes == 4

\* no data argument (null)
NullData == [ bytesPerElement |-> 0, elements |-> << >> ]

\* the data arguments: Float32Arrays of every length up to MaxDataLength, and the
\* Uint8Array of one parsed pixel
BufferData ==
    { [ bytesPerElement |-> FloatBytes, elements |-> [ k \in 1..n |-> 1500 * k ] ] :
        n \in 0..MaxDataLength }
    \cup { [ bytesPerElement |-> 1, elements |-> << 51, 102, 204, 255 >> ] }

\* TypedArray.byteLength
dataByteLength(data) == data.bytesPerElement * Len(data.elements)

\* `if (size % 4 !== 0) size += 4 - (size % 4)`
roundedSize(size) == IF size % 4 # 0 THEN size + (4 - (size % 4)) ELSE size

\* `new Float32Array(size)`: size elements, all zero
newFloat32Array(length) ==
    [ bytesPerElement |-> FloatBytes, elements |-> [ k \in 1..length |-> 0 ] ]

\* paddedData.set(data): the elements of data over the first elements of padded
setElements(padded, data) ==
    [ padded EXCEPT !.elements = [ k \in 1..Len(padded.elements) |->
                                     IF k <= Len(data.elements) THEN data.elements[k]
                                     ELSE padded.elements[k] ] ]

\* Renderer.createGPUBuffer(data, size, usage): the buffer returned and what was
\* written to it, or a RangeError thrown by paddedData.set
createGPUBuffer(hasData, data, size) ==
    LET rounded == roundedSize(size)
        pads    == hasData /\ dataByteLength(data) # rounded
        padded  == newFloat32Array(rounded)
        final   == IF pads THEN setElements(padded, data) ELSE data
    IN  IF pads /\ Len(data.elements) > Len(padded.elements)
        THEN [ threw |-> TRUE, size |-> 0, wrote |-> FALSE, written |-> NullData ]
        ELSE [ threw   |-> FALSE,
               size    |-> IF hasData THEN dataByteLength(final) ELSE rounded,
               wrote   |-> hasData,
               written |-> IF hasData THEN final ELSE NullData ]

CreateGPUBuffer ==
    /\ \E hasData \in BOOLEAN, size \in 0..MaxBufferSize :
         \E data \in IF hasData THEN BufferData ELSE {NullData} :
           created' = [ called |-> TRUE, hasData |-> hasData, data |-> data,
                        size |-> size, buffer |-> createGPUBuffer(hasData, data, size) ]
    /\ UNCHANGED << buffers, destroyed, widePlan, argument, sample, renderer, transform,
                    modelMatrixBuffer, loop, variant, numPoints, image, vertices,
                    transformUniform, computeBindGroup, renderBindGroup,
                    bindGroupsCreated, renders, drawLog, generated, generation, queue,
                    dispatch, access, history, calls, probe >>

BufferNext == CreateGPUBuffer

BufferSpec == RendererInit /\ [][BufferNext]_vars

\* ================================================================== claims

\* C1: for every workItems >= 1 compute plans totalGroups = ceil(workItems /
\* WORKGROUP_SIZE), groupsX = min(totalGroups, 65535), groupsY = ceil(totalGroups /
\* 65535); the plan has groupsX * groupsY * WORKGROUP_SIZE >= workItems and
\* groupsX <= 65535.
PlanCoversWorkItems ==
    LET d == dispatch
    IN  /\ d.total * d.hostWG >= d.workItems
        /\ (d.total - 1) * d.hostWG < d.workItems
        /\ d.xGroups <= d.total
        /\ d.xGroups <= DispatchLimit
        /\ d.xGroups = d.total \/ d.xGroups = DispatchLimit
        /\ d.yGroups * DispatchLimit >= d.total
        /\ (d.yGroups - 1) * DispatchLimit < d.total
        /\ d.xGroups * d.yGroups * d.hostWG >= d.workItems

PlanSplitReached ==
    /\ dispatch.workItems = (DispatchLimit * dispatch.hostWG) + 1
    /\ dispatch.xGroups = DispatchLimit
    /\ dispatch.yGroups = 2

TransformStaysInBounds ==
    access.kernel = "transform" =>
        /\ access.passed \subseteq 0..(numPoints - 1)
        /\ access.oobWrites = {}
        /\ access.oobReads = {}

OverProvisionedTransform ==
    /\ access.kernel = "transform"
    /\ generated
    /\ dispatch.xGroups * dispatch.yGroups * dispatch.kernelWG > numPoints
    /\ access.passed = 0..(numPoints - 1)

\* C4: every generator kernel bounds-checks against the true point count: no
\* invocation writes floats outside the record of a point in [0, count), and an
\* image-driven generator never reads the image buffer past its pixels.
GeneratorStaysInBounds ==
    generated =>
        /\ generation.access.passed \subseteq 0..(numPoints - 1)
        /\ generation.access.oobWrites = {}
        /\ generation.access.oobReads = {}

\* C5: every kernel's workgroup size and flat-index stride equal the WORKGROUP_SIZE
\* that compute plans with, so that after FibonacciLattice.generateCloud on a cloud
\* of N points every point index in [0, N) has been written by the generator.
FibonacciCoversCloud ==
    (variant = "fib" /\ generated) =>
        (0..(numPoints - 1)) \subseteq generation.access.passed

\* rotation matrices of a quarter-turn angle, and the product applied to a vector
RotXMatrix(a) == << << 1, 0, 0 >>, << 0, Cos(a), -Sin(a) >>, << 0, Sin(a), Cos(a) >> >>

RotYMatrix(a) == << << Cos(a), 0, Sin(a) >>, << 0, 1, 0 >>, << -Sin(a), 0, Cos(a) >> >>

RotZMatrix(a) == << << Cos(a), -Sin(a), 0 >>, << Sin(a), Cos(a), 0 >>, << 0, 0, 1 >> >>

MatMul(A, B) ==
    [ i \in 1..3 |-> [ j \in 1..3 |->
        (A[i][1] * B[1][j]) + (A[i][2] * B[2][j]) + (A[i][3] * B[3][j]) ] ]

MatVec(A, p) == [ i \in 1..3 |-> (A[i][1] * p[1]) + (A[i][2] * p[2]) + (A[i][3] * p[3]) ]

\* t + s * (Rz Ry Rx p): rotation about X first, then Y, then Z, then scale, then
\* translation
ExpectedPosition(p, u) ==
    LET R == MatMul(RotZMatrix(u.rotation[3]),
                    MatMul(RotYMatrix(u.rotation[2]), RotXMatrix(u.rotation[1])))
        q == MatVec(R, p)
    IN  << (q[1] * u.scale[1]) + u.translation[1],
           (q[2] * u.scale[2]) + u.translation[2],
           (q[3] * u.scale[3]) + u.translation[3] >>

PositionOf(record) == SubSeq(record, 1, 3)

ColourOf(record) == SubSeq(record, 4, 6)

\* the last transform call was the last dispatch submitted: `vertices` is its result
LastCallIsTransform == Len(history) > 0 /\ history[Len(history)].at = Len(queue)

LastTransform == history[Len(history)]

\* C6: applyTransform(t, r, s) replaces every stored position p by the result of
\* rotating p about X by r.x, then about Y by r.y, then about Z by r.z, then
\* multiplying componentwise by s, then adding t.
TransformOrder ==
    LastCallIsTransform =>
        \A p \in 1..numPoints :
            PositionOf(vertices[p]) =
                ExpectedPosition(PositionOf(LastTransform.before[p]), LastTransform.uniform)

ThreeAxisTransformApplied ==
    /\ LastCallIsTransform
    /\ generated
    /\ LastTransform.uniform = [ translation |-> << -500, 0, 3000 >>,
                                 rotation |-> << 1, 2, 3 >>, scale |-> << 3, -2, 1 >> ]
    /\ \E p \in 1..numPoints : PositionOf(LastTransform.before[p]) # Zero3

\* C7: after any sequence of translate, rotate, scale and render calls the colour
\* floats (offsets 3..5) of every record are the values the generator wrote.
ColoursKept ==
    generated => \A p \in 1..numPoints : ColourOf(vertices[p]) = generation.colours[p]

ColouredCloudTransformed ==
    /\ generated
    /\ LastCallIsTransform
    /\ Len(history) = 2
    /\ LastTransform.before # vertices
    /\ renders >= 1
    /\ \E p \in 1..numPoints : ColourOf(vertices[p]) # Zero3

TwoEqualYRotations ==
    /\ Len(history) = 2
    /\ history[2].at = Len(queue)
    /\ history[1].at = history[2].at - 1
    /\ history[1].uniform = history[2].uniform
    /\ history[1].uniform.translation = Zero3
    /\ history[1].uniform.scale = One3
    /\ history[1].uniform.rotation[1] = 0
    /\ history[1].uniform.rotation[2] # 0
    /\ history[1].uniform.rotation[3] = 0

\* C9: two successive rotate(0, k, 0) calls yield the positions of one
\* rotate(0, 2k, 0) call from the same buffer; the second call is applied to the
\* result of the first.
RotationsCompound ==
    TwoEqualYRotations =>
        LET k == history[1].uniform.rotation[2]
            once(buf, r) == applyTransform(variant, buf, computeBindGroup, numPoints, 0,
                                           Zero3, r, One3).buffer
        IN  /\ history[2].before = once(history[1].before, << 0, k, 0 >>)
            /\ vertices = once(history[1].before, << 0, 2 * k, 0 >>)

RotatedTwice ==
    /\ TwoEqualYRotations
    /\ generated
    /\ vertices # history[1].before
    /\ vertices # history[2].before

\* C10: across any sequence of render calls the render bind group is created exactly
\* once, on the first call, and reused; every render call issues one draw of exactly
\* numPoints vertices.
RenderBindGroupCreatedOnce ==
    /\ bindGroupsCreated = (IF renders = 0 THEN 0 ELSE 1)
    /\ renderBindGroup = (IF renders = 0 THEN 0 ELSE 1)
    /\ Len(drawLog) = renders
    /\ \A k \in 1..Len(drawLog) : drawLog[k] = numPoints

RenderedTwice == renders >= 2 /\ bindGroupsCreated = 1 /\ generated

\* C11: destroy() on any point cloud, including subclasses that override it
\* (ParticleSystem), releases the vertex buffer, the transform uniform buffer and the
\* model-matrix buffer.
DestroyReleasesOwnedBuffers == destroyed => (buffers \cap OwnedBuffers = {})

OversizedCloudRejected ==
    (numPoints * 24 > maxStorageBufferBindingSize) => (Len(queue) = 0 /\ buffers = {})

\* C14: a compute request with workItems > WORKGROUP_SIZE * 65535 * 65535 is rejected
\* before dispatch: compute never issues a dispatch with groupsY > 65535.
DispatchOverflowRejected ==
    /\ ( \/ widePlan.rows > DispatchLimit
         \/ widePlan.rows = DispatchLimit /\ widePlan.rest > 0 ) => ~widePlan.issued
    /\ widePlan.issued => widePlan.yGroups <= DispatchLimit

\* largest difference, in thousandths, between two colour components taken as equal:
\* the stored numbers are rounded to thousandths at every step of a conversion
ColourTolerance == 50

\* the bind groups that hold an image buffer
ImageBindGroups == {"ppm", "rgbFromPPM"}

\* C15: with no image attached CIELUVPointCloud(n) has n^3 points and LinearRGBCube(b)
\* has (2^b)^3 points and generates without binding an image buffer; with an image
\* attached both have width * height points.
PointCountRule ==
    /\ variant \in {"grid64", "luv", "luvdata"} =>
         numPoints = (IF image.defined THEN image.width * image.height
                      ELSE argument * argument * argument)
    /\ variant = "rgb" =>
         numPoints = (IF image.defined THEN image.width * image.height
                      ELSE Pow2(argument) * Pow2(argument) * Pow2(argument))
    /\ (generated /\ variant \in {"grid64", "luv", "luvdata", "rgb"} /\ ~image.defined) =>
         generation.dispatch.bindGroup \notin ImageBindGroups

\* the generator's dispatch was the last one submitted: `vertices` is what it wrote
LastDispatchIsGenerate == generated /\ dispatch.kernel = "generate"

\* C16: without an attached image LinearRGBCube(b) produces the literal b-bit cube:
\* point i has position equal to colour, and holds the lattice value
\* (i mod 2^b, (i div 2^b) mod 2^b, i div 4^b) normalised by 2^b - 1.
RGBCubeIsLattice ==
    (variant = "rgb" /\ ~image.defined /\ LastDispatchIsGenerate) =>
        LET side == Pow2(argument)
        IN  \A i \in 0..(numPoints - 1) :
              /\ PositionOf(vertices[i + 1]) = ColourOf(vertices[i + 1])
              /\ ColourOf(vertices[i + 1]) =
                    << Fixed(i % side, side - 1),
                       Fixed((i \div side) % side, side - 1),
                       Fixed(i \div (side * side), side - 1) >>

\* C17: for every grid size n >= 1 and every index i in [0, n^3) the CIELUV grid
\* generator derives the RGB (i mod n, (i div n) mod n, i div n^2) / (n - 1), every
\* component lies in [0,1], and the grid size recovered from the buffer length is n.
GridRGBFromIndex ==
    sample.kernel = "grid" =>
        /\ sample.gridSize = argument
        /\ \A k \in 1..3 : sample.rgb[k] # NaN /\ sample.rgb[k] >= 0 /\ sample.rgb[k] <= 1000
        /\ argument >= 2 =>
             sample.rgb = << Fixed(sample.index % argument, argument - 1),
                             Fixed((sample.index \div argument) % argument, argument - 1),
                             Fixed(sample.index \div (argument * argument), argument - 1) >>

\* C18: for every point written by a CIELUV generator (grid or image-driven) the three
\* colour floats of the record are exactly the original input RGB of that point.
ColourIsInputRGB ==
    sample.kernel \in {"grid", "image"} =>
        \A k \in 1..3 : Abs(ColourOf(sample.record)[k] - sample.rgb[k]) <= ColourTolerance

\* C19: an upload of a file whose first line is not P3 leaves the renderer's image, its
\* ppmBuffer and its current cloud as they were, and submits no dispatch
FailedUploadChangesNothing ==
    [][ (renderer'.events # renderer.events /\ renderer'.upload \notin {"none", "P3"})
          => /\ image' = image
             /\ renderer'.ppmBuffer = renderer.ppmBuffer
             /\ renderer'.pointCloud = renderer.pointCloud
             /\ renderer'.marked = renderer.marked
             /\ UNCHANGED << transform, modelMatrixBuffer, loop, variant, numPoints,
                             vertices, buffers, destroyed, queue, generation,
                             computeBindGroup >> ]_vars

FailedUploadWithImageAttached ==
    /\ renderer.upload \notin {"none", "P3"}
    /\ image.defined
    /\ renderer.ppmBuffer > 0
    /\ generation.dispatch.bindGroup \in ImageBindGroups


\* C20: createGPUBuffer returns a buffer whose size is the size argument rounded up to a
\* multiple of 4, and when the byte length of data differs from the rounded size the
\* buffer is written with the elements of data followed by zeros up to the rounded size
PaddedBufferHasRoundedSize ==
    created.called =>
        LET rounded == ((created.size + 3) \div 4) * 4
            written == created.buffer.written
        IN  /\ ~created.buffer.threw
            /\ created.buffer.size = rounded
            /\ (created.hasData /\ dataByteLength(created.data) # rounded) =>
                 /\ created.buffer.wrote
                 /\ dataByteLength(written) = rounded
                 /\ \A k \in 1..Len(written.elements) :
                      written.elements[k] = IF k <= Len(created.data.elements)
                                            THEN created.data.elements[k] ELSE 0


\* C21: xyz_to_luv of black is (0,0,0) by the reference-white branch, luv_to_xyz of
\* L = 0 is (0,0,0) by its zero defaults, and grid point 0 of a CIELUV cloud is stored
\* at the origin and is at the origin after the rotation generateCloud ends with
BlackPointAtOrigin ==
    /\ xyz_to_luv(<< 0, 0, 0 >>) = << 0, 0, 0 >>
    /\ luv_to_xyz(<< 0, 0, 0 >>) = << 0, 0, 0 >>
    /\ (variant \in {"grid64", "luv"} /\ ~image.defined /\ generated /\ Len(queue) = 3) =>
         /\ LastCallIsTransform
         /\ PositionOf(LastTransform.before[1]) = Zero3
         /\ PositionOf(vertices[1]) = Zero3

BlackPointGenerated ==
    /\ variant = "luv" /\ ~image.defined /\ generated /\ Len(queue) = 3
    /\ queue[2].kernel = "generate"
    /\ PositionOf(vertices[1]) = Zero3
    /\ \E p \in 2..numPoints : PositionOf(vertices[p]) # Zero3


\* C22: for every RGB input, xyz_to_rgb of rgb_to_xyz, and luv_to_rgb of xyz_to_luv of
\* rgb_to_xyz, reproduce the input (here within ColourTolerance, which is wider than
\* the 1e-5 and 1e-3 stated)
ConversionsRoundTrip ==
    sample.kernel = "roundtrip" =>
        \A k \in 1..3 :
            /\ Abs(sample.record[k] - sample.rgb[k]) <= ColourTolerance
            /\ Abs(sample.record[k + 3] - sample.rgb[k]) <= ColourTolerance


\* C23: modelMatrixBuffer always holds the matrix of the current transform; a step
\* that submits a dispatch (translate, rotate, scale, generateCloud) changes neither
\* transform nor modelMatrixBuffer; a step that changes transform or modelMatrixBuffer
\* changes neither the vertex buffer nor the queue
ModelTransformIndependent ==
    /\ [](modelMatrixBuffer = fromRotationTranslationScale(transform.rotation,
                                                           transform.position,
                                                           transform.scale))
    /\ [][ /\ (queue' # queue) =>
                (transform' = transform /\ modelMatrixBuffer' = modelMatrixBuffer)
           /\ (transform' # transform \/ modelMatrixBuffer' # modelMatrixBuffer) =>
                (vertices' = vertices /\ queue' = queue
                   /\ transformUniform' = transformUniform) ]_vars

TransformSetAfterBake ==
    /\ transform # IdentityTransform
    /\ modelMatrixBuffer # updateModelMatrix(IdentityTransform)
    /\ LastCallIsTransform
    /\ LastTransform.before # vertices


\* the kernels generateCloud dispatches to produce the cloud
GeneratorKernels == {"generate", "rgbToXYZ"}

\* C24: every generator dispatch of a cloud is submitted before every transform
\* dispatch a frame makes on that cloud
GeneratorsBeforeFrameTransforms ==
    \A i, j \in 1..Len(loop.submitted) :
        (loop.submitted[i].kernel = "transform" /\ loop.submitted[i].frame > 0
           /\ loop.submitted[j].kernel \in GeneratorKernels) => j < i


\* the positions in what queue.submit received of frame f's submissions of one kind
frameEntries(f, kind) ==
    { i \in 1..Len(loop.submitted) :
        loop.submitted[i].frame = f /\ loop.submitted[i].kind = kind }

\* C25: a frame that ran with animateRotation set submitted exactly one transform
\* dispatch and exactly one render command buffer, the dispatch before the command
\* buffer
AnimatedFrameSubmitsTransformThenDraw ==
    \A f \in loop.animated :
        /\ Cardinality(frameEntries(f, "dispatch")) = 1
        /\ Cardinality(frameEntries(f, "render")) = 1
        /\ \A i \in frameEntries(f, "dispatch") :
             /\ loop.submitted[i].kernel = "transform"
             /\ \A j \in frameEntries(f, "render") : i < j

\* a second frame ran with animateRotation set
AnimatedFrameRan == loop.frames = MaxFrames /\ loop.frames \in loop.animated


\* the builds of CIELUVPointCloud
CIELUVBuilds == {"grid64", "luv", "luvdata"}

\* the positions in what queue.submit received of generateCloud's dispatches of one
\* kernel
generateEntries(kernel) ==
    { i \in 1..Len(loop.submitted) :
        loop.submitted[i].frame = 0 /\ loop.submitted[i].kernel = kernel }

\* the uniform rotate(0, 0, Math.PI / 2) writes
PresentationRotation ==
    [ translation |-> Zero3, rotation |-> << 0, 0, 1 >>, scale |-> One3 ]

\* C27: a finished generateCloud of a CIELUV cloud has submitted exactly one transform
\* dispatch, after its one generator dispatch, and none before it finished; the step
\* that finishes it leaves the uniform of rotate(0, 0, pi / 2) behind the two
\* dispatches it ends with
GenerateCloudRotatesOnce ==
    /\ [](variant \in CIELUVBuilds =>
            IF loop.pc = "done"
            THEN /\ Cardinality(generateEntries("transform")) = 1
                 /\ Cardinality(generateEntries("generate")) = 1
                 /\ \A i \in generateEntries("generate") :
                      \A j \in generateEntries("transform") : i < j
            ELSE generateEntries("transform") = {})
    /\ [][(variant \in CIELUVBuilds /\ loop.pc # "done" /\ loop'.pc = "done") =>
            /\ Len(queue') = Len(queue) + 2
            /\ queue'[Len(queue) + 1].kernel = "generate"
            /\ queue'[Len(queue) + 2].kernel = "transform"
            /\ transformUniform' = PresentationRotation]_vars

\* generateCloud of a cloud built from an image finished after it was suspended
ResumedGenerateCloudFinished ==
    /\ variant = "luvdata"
    /\ image.defined
    /\ loop.pc = "done"
    /\ loop.frames = 0
    /\ transformUniform = PresentationRotation


\* C26: the cloud a frame renders and rotates has not been destroyed
FrameCloudNotDestroyed ==
    [][loop'.frames = loop.frames + 1 => ~destroyed]_vars


\* C28: while the renderer holds an image, ppmBuffer is the buffer created when that
\* image was assigned, the last one created, and markGPUBufferForDeletion was never
\* called with it
TextureBufferLive ==
    image.defined =>
        /\ renderer.ppmBuffer > 0
        /\ renderer.ppmBuffer = renderer.buffersCreated
        /\ renderer.ppmBuffer \notin renderer.marked

\* a second image replaced a first one, whose buffer was scheduled
SecondImageAttached ==
    /\ image.defined
    /\ renderer.ppmBuffer >= 2
    /\ (renderer.ppmBuffer - 1) \in renderer.marked


\* C29: markGPUBufferForDeletion was only ever called with a buffer, never with null
\* and never with the unassigned field
OnlyBuffersScheduled == \A b \in renderer.marked : b > 0


\* the bind group layout the pipeline of a kernel is created with: the one layout of
\* createComputePipeline in the builds with a single bind group, else the layout
\* passed for the kernel
pipelineLayoutOf(v, kernel, img) ==
    IF ~SwitchesBindGroup(v) THEN "compute"
    ELSE CASE kernel = "init" -> "initBGLayout"
           [] kernel = "transform" -> "transformBGLayout"
           [] kernel = "rgbToXYZ" -> "ppmBGL"
           [] kernel = "generate" ->
                CASE v = "rgb" -> "rgbBGL"
                  [] v = "luv" -> IF img.defined THEN "luvBGL" ELSE "transformBGLayout"
                  [] OTHER -> "transformBGLayout"
           [] OTHER -> "none"

\* the bind group layout a bind group is created with
bindGroupLayoutOf(v, bindGroup) ==
    IF ~SwitchesBindGroup(v) THEN "compute"
    ELSE CASE bindGroup = "init" -> "initBGLayout"
           [] bindGroup = "transform" -> "transformBGLayout"
           [] bindGroup \in {"rgbFromPPM", "rgbCube"} -> "rgbBGL"
           [] bindGroup = "ppm" -> IF v = "luv" THEN "luvBGL" ELSE "ppmBGL"
           [] OTHER -> "unset"

\* C30: every dispatch submitted so far set a bind group created with the layout of
\* its pipeline, and every transform dispatch set the transform bind group
DispatchesUseMatchingBindGroup ==
    \A k \in 1..Len(queue) :
        /\ bindGroupLayoutOf(variant, queue[k].bindGroup)
             = pipelineLayoutOf(variant, queue[k].kernel, image)
        /\ queue[k].kernel = "transform" => queue[k].bindGroup = "transform"

\* a cloud that switches bind groups was generated and then transformed: its queue
\* holds dispatches with three different bind groups
ThreeBindGroupsUsed ==
    /\ generated
    /\ Cardinality({ queue[k].bindGroup : k \in 1..Len(queue) }) = 3

====
